---- MODULE Spec2Model ----
(***************************************************************************)
(* Model of src-tauri/src/lib.rs: the run() entry point of the desktop     *)
(* shell.  run() records a start Instant, builds a tauri::Builder, chains  *)
(* eight .plugin(..) calls, installs a setup closure that prints the       *)
(* elapsed time, calls Builder::run and .expect()s its Result.             *)
(*                                                                         *)
(* The program counter names the source line about to be executed (L5 ..   *)
(* L21).  Between L20 and L21 control is inside the framework's            *)
(* Builder::run, which is outside this repository: it is modelled as an    *)
(* environment that may fail while building the application, or invoke the *)
(* FnOnce setup hook once, block in the event loop and eventually hand a   *)
(* Result back to line 21.                                                 *)
(***************************************************************************)
EXTENDS Integers, Sequences, FiniteSets, TLC

\* Largest reading of the monotonic clock that is explored.
MaxClock == 4

\* Option values: None is "not set", Some(x) is "set to x".
None == << >>
Some(x) == << x >>

\* The literal handed to .expect() on line 21.
ExpectMsg == "error while running tauri application"

\* The literal prefix of the println! format string on line 17.
SetupMsg == "Tauri setup time: "

\* Exit status of a panicking process: 101 when the panic unwinds out of
\* main, 134 (SIGABRT) when the build uses panic = "abort".
PanicExitCodes == {101, 134}

\* The statement that follows each line of run() in straight-line order.
NextLineNoSetup ==
  [L5 |-> "L7", L7 |-> "L8", L8 |-> "L9", L9 |-> "L10", L10 |-> "L11",
   L11 |-> "L12", L12 |-> "L13", L13 |-> "L14", L14 |-> "L15",
   L15 |-> "L20", L16 |-> "L20", L20 |-> "L21"]

NextLine ==
  [L5 |-> "L7", L7 |-> "L8", L8 |-> "L9", L9 |-> "L10", L10 |-> "L11",
   L11 |-> "L12", L12 |-> "L13", L13 |-> "L14", L14 |-> "L15",
   L15 |-> "L16", L16 |-> "L20", L20 |-> "L21"]

\* The plugin whose init()/build() value is passed to .plugin() on each line.
PluginAtDropHttp ==
  [L8 |-> "opener", L9 |-> "fs", L10 |-> "dialog", L11 |-> "store",
   L12 |-> "sql", L13 |-> "notification", L14 |-> "deep-link",
   L15 |-> "fs"]

PluginAtSwapped ==
  [L8 |-> "opener", L9 |-> "dialog", L10 |-> "fs", L11 |-> "store",
   L12 |-> "sql", L13 |-> "notification", L14 |-> "deep-link",
   L15 |-> "http"]

PluginAt ==
  [L8 |-> "opener", L9 |-> "fs", L10 |-> "dialog", L11 |-> "store",
   L12 |-> "sql", L13 |-> "notification", L14 |-> "deep-link",
   L15 |-> "http"]

\* Instant::elapsed(): the current reading minus the recorded one,
\* saturating at zero (Instant::duration_since).
ElapsedReversed(earlier, current) ==
  earlier - current

Elapsed(earlier, current) ==
  IF current >= earlier THEN current - earlier ELSE 0

IsErr(r) == r \in {"ErrBuild", "ErrLoop"}

VARIABLES
  pc,            \* line of run() about to execute, or position inside the framework
  now,           \* reading of the monotonic clock
  start,         \* the local `start` of line 5: None before it is bound
  builders,      \* number of tauri::Builder values constructed
  plugins,       \* the builder's plugin store, in registration order
  setup,         \* the builder's setup hook
  runCalls,      \* number of calls of Builder::run
  hookEnv,       \* the closure the framework is executing (its captured start)
  hookResult,    \* what the setup hook returned: None until it has returned
  stdout,        \* lines printed to standard output
  result,        \* the Result of Builder::run: "Pending" until it returns
  panicPayload,  \* message of the panic raised by .expect()
  exitCode       \* exit status of the process: None while it runs

vars == << pc, now, start, builders, plugins, setup, runCalls, hookEnv,
           hookResult, stdout, result, panicPayload, exitCode >>

Terminal == {"returned", "aborted"}

Init ==
  /\ pc = "L5"
  /\ now \in 0..MaxClock
  /\ start = None
  /\ builders = 0
  /\ plugins = << >>
  /\ setup = [kind |-> "none", start |-> None]
  /\ runCalls = 0
  /\ hookEnv = None
  /\ hookResult = None
  /\ stdout = << >>
  /\ result = "Pending"
  /\ panicPayload = None
  /\ exitCode = None

\* The monotonic clock advances while the process is alive.
Tick ==
  /\ pc \notin Terminal
  /\ now < MaxClock
  /\ now' = now + 1
  /\ UNCHANGED << pc, start, builders, plugins, setup, runCalls, hookEnv,
                  hookResult, stdout, result, panicPayload, exitCode >>

\* line 5: let start = Instant::now();
RecordStart ==
  /\ pc = "L5"
  /\ start' = Some(now)
  /\ pc' = NextLine[pc]
  /\ UNCHANGED << now, builders, plugins, setup, runCalls, hookEnv,
                  hookResult, stdout, result, panicPayload, exitCode >>

\* line 7: tauri::Builder::default() - no plugins, the default no-op setup hook.
BuilderDefault ==
  /\ pc = "L7"
  /\ builders' = builders + 1
  /\ plugins' = << >>
  /\ setup' = [kind |-> "default", start |-> None]
  /\ pc' = NextLine[pc]
  /\ UNCHANGED << now, start, runCalls, hookEnv, hookResult, stdout,
                  result, panicPayload, exitCode >>

\* lines 8-15: .plugin(<plugin>)
RegisterPlugin ==
  /\ pc \in DOMAIN PluginAt
  /\ plugins' = Append(plugins, PluginAt[pc])
  /\ pc' = NextLine[pc]
  /\ UNCHANGED << now, start, builders, setup, runCalls, hookEnv,
                  hookResult, stdout, result, panicPayload, exitCode >>

\* line 16: .setup(move |_app| { .. }) - the closure captures start by value.
InstallSetup ==
  /\ pc = "L16"
  /\ setup' = [kind |-> "closure", start |-> start]
  /\ pc' = NextLine[pc]
  /\ UNCHANGED << now, start, builders, plugins, runCalls, hookEnv,
                  hookResult, stdout, result, panicPayload, exitCode >>

\* line 20: .run(tauri::generate_context!()) - control enters the framework.
CallRun ==
  /\ pc = "L20"
  /\ runCalls' = runCalls + 1
  /\ pc' = "fw_build"
  /\ UNCHANGED << now, start, builders, plugins, setup, hookEnv,
                  hookResult, stdout, result, panicPayload, exitCode >>

\* Framework: building the application fails; Builder::run returns Err
\* without having invoked the setup hook.
FrameworkBuildFail ==
  /\ pc = "fw_build"
  /\ result' = "ErrBuild"
  /\ pc' = NextLine["L20"]
  /\ UNCHANGED << now, start, builders, plugins, setup, runCalls, hookEnv,
                  hookResult, stdout, panicPayload, exitCode >>

\* Framework: the application is built and ready; the FnOnce setup hook is
\* taken out of the builder and invoked.  The default hook of
\* Builder::default() does nothing and returns Ok(()).
FrameworkReady ==
  /\ pc = "fw_build"
  /\ setup.kind \in {"default", "closure"}
  /\ setup' = [kind |-> "taken", start |-> None]
  /\ IF setup.kind = "closure"
       THEN /\ hookEnv' = setup.start
            /\ pc' = "hook"
            /\ UNCHANGED hookResult
       ELSE /\ hookResult' = Some("Ok")
            /\ pc' = "fw_hook_ret"
            /\ UNCHANGED hookEnv
  /\ UNCHANGED << now, start, builders, plugins, runCalls, stdout, result,
                  panicPayload, exitCode >>

\* lines 16-19 with the println! executed twice.
SetupHookTwice ==
  /\ pc = "hook"
  /\ stdout' = stdout \o
                 << [text |-> SetupMsg, elapsed |-> Elapsed(hookEnv[1], now)],
                    [text |-> SetupMsg, elapsed |-> Elapsed(hookEnv[1], now)] >>
  /\ hookResult' = Some("Ok")
  /\ pc' = "fw_hook_ret"
  /\ UNCHANGED << now, start, builders, plugins, setup, runCalls, hookEnv,
                  result, panicPayload, exitCode >>

\* lines 16-19 without the println!.
SetupHookSilent ==
  /\ pc = "hook"
  /\ hookResult' = Some("Ok")
  /\ pc' = "fw_hook_ret"
  /\ UNCHANGED << now, start, builders, plugins, setup, runCalls, hookEnv,
                  stdout, result, panicPayload, exitCode >>

\* lines 16-19 returning an error instead of Ok(()).
SetupHookErr ==
  /\ pc = "hook"
  /\ stdout' = Append(stdout,
                 [text |-> SetupMsg, elapsed |-> Elapsed(hookEnv[1], now)])
  /\ hookResult' = Some("Err")
  /\ pc' = "fw_hook_ret"
  /\ UNCHANGED << now, start, builders, plugins, setup, runCalls, hookEnv,
                  result, panicPayload, exitCode >>

\* lines 16-19: the body of the setup closure,
\*   println!("Tauri setup time: {:?}", start.elapsed()); Ok(())
SetupHook ==
  /\ pc = "hook"
  /\ stdout' = Append(stdout,
                 [text |-> SetupMsg, elapsed |-> Elapsed(hookEnv[1], now)])
  /\ hookResult' = Some("Ok")
  /\ pc' = "fw_hook_ret"
  /\ UNCHANGED << now, start, builders, plugins, setup, runCalls, hookEnv,
                  result, panicPayload, exitCode >>

\* Framework: the hook reported success; the event loop starts and blocks.
FrameworkEnterLoop ==
  /\ pc = "fw_hook_ret"
  /\ hookResult = Some("Ok")
  /\ pc' = "fw_loop"
  /\ UNCHANGED << now, start, builders, plugins, setup, runCalls, hookEnv,
                  hookResult, stdout, result, panicPayload, exitCode >>

\* Framework: the event loop ends and Builder::run returns its Result.
FrameworkLoopExit ==
  /\ pc = "fw_loop"
  /\ \E r \in {"Ok", "ErrLoop"} : result' = r
  /\ pc' = NextLine["L20"]
  /\ UNCHANGED << now, start, builders, plugins, setup, runCalls, hookEnv,
                  hookResult, stdout, panicPayload, exitCode >>

\* line 21 with the error discarded (.ok()): run() returns on Err too.
ExpectSwallow ==
  /\ pc = "L21"
  /\ pc' = "returned"
  /\ UNCHANGED << now, start, builders, plugins, setup, runCalls, hookEnv,
                  hookResult, stdout, result, panicPayload, exitCode >>

\* line 21 as .unwrap(): the panic carries no message of the program's own.
ExpectUnwrap ==
  /\ pc = "L21"
  /\ IF IsErr(result)
       THEN /\ panicPayload' =
                 Some(<< "called Result::unwrap() on an Err value", result >>)
            /\ \E code \in PanicExitCodes : exitCode' = Some(code)
            /\ pc' = "aborted"
       ELSE /\ pc' = "returned"
            /\ UNCHANGED << panicPayload, exitCode >>
  /\ UNCHANGED << now, start, builders, plugins, setup, runCalls, hookEnv,
                  hookResult, stdout, result >>

\* line 21 replaced by a retry: on Err the launch is started over.
ExpectRetry ==
  /\ pc = "L21"
  /\ IF IsErr(result)
       THEN /\ pc' = "L7"
            /\ result' = "Pending"
       ELSE /\ pc' = "returned"
            /\ UNCHANGED result
  /\ UNCHANGED << now, start, builders, plugins, setup, runCalls, hookEnv,
                  hookResult, stdout, panicPayload, exitCode >>

\* line 21: .expect("error while running tauri application") - Err panics with
\* "<msg>: <err:?>" and the process dies with a panic status; Ok falls
\* through to the end of run().
Expect ==
  /\ pc = "L21"
  /\ IF IsErr(result)
       THEN /\ panicPayload' = Some(<< ExpectMsg, result >>)
            /\ \E code \in PanicExitCodes : exitCode' = Some(code)
            /\ pc' = "aborted"
       ELSE /\ pc' = "returned"
            /\ UNCHANGED << panicPayload, exitCode >>
  /\ UNCHANGED << now, start, builders, plugins, setup, runCalls, hookEnv,
                  hookResult, stdout, result >>

Next ==
  \/ Tick
  \/ RecordStart
  \/ BuilderDefault
  \/ RegisterPlugin
  \/ InstallSetup
  \/ CallRun
  \/ FrameworkBuildFail
  \/ FrameworkReady
  \/ SetupHook
  \/ FrameworkEnterLoop
  \/ FrameworkLoopExit
  \/ Expect

Spec == Init /\ [][Next]_vars

\* run() is sequential code: once Builder::run has returned, line 21 executes.
FairSpec == Spec /\ WF_vars(Expect)

\* The set of elements of a sequence.
Range(seq) == { seq[i] : i \in DOMAIN seq }

\* The eight plugins the specification names, in the order it names them.
NamedOrder ==
  << "opener", "fs", "dialog", "store", "sql", "notification", "deep-link",
     "http" >>

\* C1: in a launch that succeeds (the hook was invoked and the run loop has
\* not reported an error) the line "Tauri setup time: <duration>" is on
\* standard output exactly once, and it is already there when the run loop
\* is in its blocking phase.
C1_SetupLineExactlyOnce ==
  (pc = "fw_loop" \/ (pc \in {"L21", "returned"} /\ result = "Ok"))
    => /\ Len(stdout) = 1
       /\ stdout[1].text = "Tauri setup time: "

C1_Witness ==
  pc = "fw_loop" /\ Len(stdout) = 1 /\ hookResult = Some("Ok")

\* C2: once the run loop has been started, the registered plugins are
\* exactly the eight named ones.
C2_EightPluginsAtRun ==
  runCalls > 0 => Range(plugins) = Range(NamedOrder)

C2_Witness ==
  pc = "fw_build" /\ runCalls = 1 /\ Cardinality(Range(plugins)) = 8

\* C3: when the run loop returns a failure the process terminates, its exit
\* status is non-zero, and from the failure on nothing more is printed to
\* standard output.
C3_FailureAborts ==
  /\ [](pc = "aborted" => (exitCode # None /\ \A i \in DOMAIN exitCode : exitCode[i] # 0))
  /\ [][IsErr(result) => stdout' = stdout]_vars
  /\ (IsErr(result) ~> pc = "aborted")

C3_Witness ==
  pc = "aborted" /\ result = "ErrLoop" /\ exitCode # None /\ Len(stdout) = 1

\* C4: the process aborts if and only if the run loop reported a failure; a
\* failure is never turned into a normal return, and the panic message
\* begins with "error while running tauri application".
C4_AbortIffFailure ==
  /\ pc = "aborted" =>
       /\ IsErr(result)
       /\ panicPayload # None
       /\ \A i \in DOMAIN panicPayload :
            panicPayload[i][1] = "error while running tauri application"
  /\ IsErr(result) => pc \in {"L21", "aborted"}
  /\ pc = "returned" => panicPayload = None

C4_Witness ==
  pc = "aborted" /\ result = "ErrBuild" /\ panicPayload # None

\* C5: when the run loop returns Ok after the hook was invoked, run() returns
\* normally: no panic, no exit status, exactly one line printed.
C5_OkReturnsNormally ==
  /\ [](result = "Ok" =>
          /\ pc \in {"L21", "returned"}
          /\ Len(stdout) = 1
          /\ exitCode = None
          /\ panicPayload = None)
  /\ (result = "Ok" ~> pc = "returned")

C5_Witness ==
  pc = "returned" /\ result = "Ok" /\ Len(stdout) = 1 /\ exitCode = None

\* C6: the elapsed time printed by the hook is non-negative and equals the
\* clock reading at the hook's invocation minus the reading taken at entry;
\* start is bound to the current reading before the builder exists and
\* before any plugin is registered, and never changes afterwards.
C6_ElapsedIsNowMinusStart ==
  /\ [](\A i \in DOMAIN stdout : stdout[i].elapsed >= 0)
  /\ [][Len(stdout') > Len(stdout) =>
          /\ start # None
          /\ \A i \in (DOMAIN stdout') \ (DOMAIN stdout) :
               stdout'[i].elapsed = now - start[1]]_vars
  /\ [](start = None => (builders = 0 /\ plugins = << >>))
  /\ [][(start = None /\ start' # None) => start' = Some(now)]_vars
  /\ [][start # None => start' = start]_vars

C6_Witness ==
  Len(stdout) = 1 /\ stdout[1].elapsed > 0 /\ start # None

\* C7: the eight plugin registrations and the installation of the setup hook
\* have happened when the run loop is entered, and no plugin is registered
\* after it has been entered.
C7_SetupBeforeRun ==
  /\ [][runCalls' > runCalls =>
          (Len(plugins) = 8 /\ setup.kind = "closure")]_vars
  /\ [][runCalls > 0 => plugins' = plugins]_vars

C7_Witness ==
  pc = "fw_loop" /\ runCalls = 1 /\ Len(plugins) = 8 /\ setup.kind = "taken"

\* C8: the plugins are registered in the order opener, fs, dialog, store,
\* sql, notification, deep-link, http, and none is registered twice.
C8_FixedOrderNoDuplicate ==
  /\ Len(plugins) <= Len(NamedOrder)
  /\ \A i \in DOMAIN plugins : plugins[i] = NamedOrder[i]
  /\ \A i, j \in DOMAIN plugins : plugins[i] = plugins[j] => i = j

C8_Witness ==
  pc = "L16" /\ Len(plugins) = 8

\* C9: the setup hook only appends one line to standard output - plugins,
\* start, the builder and the launch's result are left alone - and it
\* always returns Ok.
C9_HookObservabilityOnly ==
  /\ [][(pc = "hook" /\ pc' # "hook") =>
          /\ Len(stdout') = Len(stdout) + 1
          /\ SubSeq(stdout', 1, Len(stdout)) = stdout
          /\ plugins' = plugins
          /\ start' = start
          /\ builders' = builders
          /\ setup' = setup
          /\ runCalls' = runCalls
          /\ result' = result
          /\ panicPayload' = panicPayload
          /\ exitCode' = exitCode
          /\ hookResult' = Some("Ok")]_vars
  /\ [](hookResult \in {None, Some("Ok")})

C9_Witness ==
  pc = "fw_hook_ret" /\ hookResult = Some("Ok") /\ Len(stdout) = 1

\* C10: the run loop is entered at most once, and after a failure neither
\* the run loop is entered again nor is a builder constructed or a plugin
\* registered again.
C10_NoRetry ==
  /\ [](runCalls <= 1 /\ builders <= 1)
  /\ [][IsErr(result) =>
          /\ IsErr(result')
          /\ runCalls' = runCalls
          /\ builders' = builders
          /\ plugins' = plugins]_vars

C10_Witness ==
  pc = "aborted" /\ runCalls = 1 /\ builders = 1 /\ Len(plugins) = 8
====
